---- MODULE Spec2Model ----
(***************************************************************************)
(* x402-cre-price-alerts: the RuleRegistry contract (Rule Store and Report *)
(* Authenticator) and the CRE cron workflow (Rule Evaluator and Notifier). *)
(*                                                                         *)
(* Spec      the registry under arbitrary callers: onReport, the owner's   *)
(*           setters, USDC receipt and withdrawal, and the view functions. *)
(* CronSpec  the cron workflow's evaluation cycles, interleaved with       *)
(*           appends to the registry; ticks lie further apart than the     *)
(*           response cache's maxAge (the default schedule is hourly).     *)
(* FastCronSpec  CronSpec under a schedule whose ticks may follow each     *)
(*           other within the response cache's maxAge.                     *)
(* TimedCronSpec  CronSpec with appends and cycles on one clock.           *)
(* WriteSpec the write path: POST /alerts on the server, the HTTP-trigger  *)
(*           workflow (onHttpTrigger) and the registry's onReport.         *)
(***************************************************************************)
EXTENDS Integers, Sequences, FiniteSets, Bags, TLC

VARIABLES
    \* ReceiverTemplate storage
    s_forwarderAddress, s_expectedAuthor, s_expectedWorkflowName, s_expectedWorkflowId,
    \* RuleRegistry storage
    nextRuleId, rules, usdcBalance,
    \* the last external call made on the registry and its outcome
    lastOp,
    \* the rules decoded from the onReport calls that did not revert, in call order,
    \* and the time (block.timestamp) of each of these calls
    accepted, appendedAt,
    \* onCronTrigger: position, locals and result of the running cycle
    pc, priceData, ruleCount, cronRules, index, currentTimestamp, notificationsSent,
    cycleResult,
    \* per rule of the running cycle: what the loop body did with it
    ruleLog,
    \* getAllRules (workflow): the decoded result of the bulk call and the indices
    \* passed to getRule, in call order
    bulk, lookups,
    \* the time in seconds: what Date.now() / 1000 and block.timestamp read
    clock,
    \* the HTTP capability's response cache: the responses stored for requests sent
    \* with cacheSettings.store, while no older than maxAge
    cache,
    \* the server: the alerts POST /alerts created (a bag: the server keeps none of
    \* them, and one alert may be created more than once), and its last response
    alerts, serverResponse,
    \* the outcome of the last onHttpTrigger invocation
    httpResult,
    \* the server: the last POST /chat request, what the model answered to it, the
    \* status of the server's response and the number of createPaidPriceAlert calls
    chatResult

registryVars == <<s_forwarderAddress, s_expectedAuthor, s_expectedWorkflowName,
                  s_expectedWorkflowId, nextRuleId, rules, usdcBalance, lastOp, accepted, appendedAt>>
cronVars == <<pc, priceData, ruleCount, cronRules, index, currentTimestamp,
              notificationsSent, cycleResult, ruleLog, cache, bulk, lookups, clock>>
pipelineVars == <<alerts, serverResponse, httpResult, chatResult>>
vars == <<registryVars, cronVars, pipelineVars>>

----------------------------------------------------------------------------
(* Bounds *)

\* the store holds at most MaxRules rules (appends are cut off there)
MaxRules == 2
\* the contract's USDC balance is capped at MaxBalance
MaxBalance == 1

\* address(0)
ZeroAddress == 0
\* the deployer, owner of the registry (Ownable(msg.sender))
Owner == 1
\* the Chainlink forwarder that delivers the workflow's reports
ForwarderAddress == 2

Addresses == {ZeroAddress, Owner, ForwarderAddress}
Callers == {Owner, ForwarderAddress}
\* workflow ids (bytes32): bytes32(0) and one other
WorkflowIds == {0, 1}
\* workflow names the owner may configure ("" disables the check)
WorkflowNames == {"", "alerts"}
\* bytes10 values: 0 is bytes10(0), 1 the derived form of "alerts", 2 any other
Bytes10 == {0, 1, 2}

\* a value no price, count or list takes
Null == -1

----------------------------------------------------------------------------
(* Rules and reports *)

Rule(id, asset, condition, targetPriceUsd, createdAt) ==
    [id |-> id, asset |-> asset, condition |-> condition,
     targetPriceUsd |-> targetPriceUsd, createdAt |-> createdAt]

\* the value an unwritten slot of the `rules` mapping reads as
ZeroRule == Rule(0, "", "", 0, 0)

\* the encoding with the two uint256 values in each other's place
EncodeAbiParameters_Swapped(r) == <<r.id, r.asset, r.condition, r.createdAt, r.targetPriceUsd>>

\* encodeAbiParameters(bytes32 id, string asset, string condition, uint256, uint256)
EncodeAbiParameters(r) == <<r.id, r.asset, r.condition, r.targetPriceUsd, r.createdAt>>

\* abi.decode that reads the fields a short buffer has and zero for the rest
AbiDecode_Partial(report) ==
    [ok |-> TRUE,
     rule |-> Rule(IF Len(report) >= 1 THEN report[1] ELSE 0,
                   IF Len(report) >= 2 THEN report[2] ELSE "",
                   IF Len(report) >= 3 THEN report[3] ELSE "",
                   IF Len(report) >= 4 THEN report[4] ELSE 0,
                   IF Len(report) >= 5 THEN report[5] ELSE 0)]

\* abi.decode(report, (bytes32, string, string, uint256, uint256)): reverts on a
\* buffer that is not the encoding of the five-field tuple
AbiDecode(report) ==
    IF Len(report) = 5
    THEN [ok |-> TRUE,
          rule |-> Rule(report[1], report[2], report[3], report[4], report[5])]
    ELSE [ok |-> FALSE, rule |-> ZeroRule]

\* the rules the registry's callers submit in Spec
ReportRules == {Rule(1, "BTC", "gt", 1, 0), Rule(2, "DOGE", "eq", 2, 1)}
\* report buffers: the encodings, and their truncations
Reports == {EncodeAbiParameters(r) : r \in ReportRules}
             \cup {SubSeq(EncodeAbiParameters(Rule(1, "BTC", "gt", 1, 0)), 1, 3)}

\* metadata: abi.encodePacked(workflowId, workflowName, workflowOwner); a shorter
\* buffer reads as zero in the fields it lacks
NoMetadata == [workflowId |-> 0, workflowName |-> 0, workflowOwner |-> ZeroAddress]
Metadatas ==
    [workflowId : WorkflowIds, workflowName : Bytes10 \ {0}, workflowOwner : Callers]
      \cup {NoMetadata}

----------------------------------------------------------------------------
(* ReceiverTemplate *)

\* sha256(name) -> hex -> first 10 characters, as bytes10: never bytes10(0),
\* since hex characters are non-zero bytes
Sha256Hex10(name) == IF name = "alerts" THEN 1 ELSE 2

\* setExpectedWorkflowName: the value stored for a name
WorkflowNameBytes(name) == IF name = "" THEN 0 ELSE Sha256Hex10(name)

\* _decodeMetadata
DecodeMetadata(metadata) ==
    <<metadata.workflowId, metadata.workflowName, metadata.workflowOwner>>

\* onReport's checks with the sender compared even when no forwarder is set
OnReportCheck_UnsetForwarderEnforced(sender, metadata) ==
    IF sender # s_forwarderAddress
    THEN "InvalidSender"
    ELSE IF s_expectedWorkflowId # 0 /\ metadata.workflowId # s_expectedWorkflowId
    THEN "InvalidWorkflowId"
    ELSE IF s_expectedAuthor # 0 /\ metadata.workflowOwner # s_expectedAuthor
    THEN "InvalidAuthor"
    ELSE IF s_expectedWorkflowName # 0 /\ metadata.workflowName # s_expectedWorkflowName
    THEN "InvalidWorkflowName"
    ELSE "ok"

\* onReport's checks without the owner check (lines 76-78 dropped)
OnReportCheck_SkipAuthor(sender, metadata) ==
    IF s_forwarderAddress # 0 /\ sender # s_forwarderAddress
    THEN "InvalidSender"
    ELSE IF s_expectedWorkflowId # 0 /\ metadata.workflowId # s_expectedWorkflowId
    THEN "InvalidWorkflowId"
    ELSE IF s_expectedWorkflowName # 0 /\ metadata.workflowName # s_expectedWorkflowName
    THEN "InvalidWorkflowName"
    ELSE "ok"

\* onReport's checks with the owner compared before the workflow id
OnReportCheck_AuthorFirst(sender, metadata) ==
    IF s_forwarderAddress # 0 /\ sender # s_forwarderAddress
    THEN "InvalidSender"
    ELSE IF s_expectedAuthor # 0 /\ metadata.workflowOwner # s_expectedAuthor
    THEN "InvalidAuthor"
    ELSE IF s_expectedWorkflowId # 0 /\ metadata.workflowId # s_expectedWorkflowId
    THEN "InvalidWorkflowId"
    ELSE IF s_expectedWorkflowName # 0 /\ metadata.workflowName # s_expectedWorkflowName
    THEN "InvalidWorkflowName"
    ELSE "ok"

\* onReport's checks with the owner compared also when the expected author is the
\* zero address
OnReportCheck_ZeroAuthorCompared(sender, metadata) ==
    IF s_forwarderAddress # 0 /\ sender # s_forwarderAddress
    THEN "InvalidSender"
    ELSE IF s_expectedWorkflowId # 0 /\ metadata.workflowId # s_expectedWorkflowId
    THEN "InvalidWorkflowId"
    ELSE IF metadata.workflowOwner # s_expectedAuthor
    THEN "InvalidAuthor"
    ELSE IF s_expectedWorkflowName # 0 /\ metadata.workflowName # s_expectedWorkflowName
    THEN "InvalidWorkflowName"
    ELSE "ok"

\* onReport's security checks: the error the call reverts with, or "ok"
OnReportCheck(sender, metadata) ==
    IF s_forwarderAddress # 0 /\ sender # s_forwarderAddress
    THEN "InvalidSender"
    ELSE IF s_expectedWorkflowId # 0 \/ s_expectedAuthor # 0 \/ s_expectedWorkflowName # 0
    THEN LET d == DecodeMetadata(metadata)
             workflowId == d[1]
             workflowName == d[2]
             workflowOwner == d[3]
         IN IF s_expectedWorkflowId # 0 /\ workflowId # s_expectedWorkflowId
            THEN "InvalidWorkflowId"
            ELSE IF s_expectedAuthor # 0 /\ workflowOwner # s_expectedAuthor
            THEN "InvalidAuthor"
            ELSE IF s_expectedWorkflowName # 0 /\ workflowName # s_expectedWorkflowName
            THEN "InvalidWorkflowName"
            ELSE "ok"
    ELSE "ok"

----------------------------------------------------------------------------
(* RuleRegistry *)

RuleIds == 0..MaxRules

\* writeRule without nextRuleId++
WriteRule_NoIncrement(r) ==
    [nextRuleId |-> nextRuleId, rules |-> [rules EXCEPT ![nextRuleId] = r]]

\* writeRule storing at a fixed slot instead of rules[ruleId]
WriteRule_Overwrite(r) ==
    [nextRuleId |-> nextRuleId + 1, rules |-> [rules EXCEPT ![0] = r]]

\* writeRule applied in part: nextRuleId++ without the rule stored
WriteRule_CountOnly(r) ==
    [nextRuleId |-> nextRuleId + 1, rules |-> rules]

\* writeRule: the counter and the mapping after the write
WriteRule(r) ==
    [nextRuleId |-> nextRuleId + 1, rules |-> [rules EXCEPT ![nextRuleId] = r]]

\* getRule: require(_ruleId < nextRuleId, "Rule does not exist")
GetRule(ruleId) ==
    IF ruleId < nextRuleId
    THEN [err |-> "ok", rule |-> rules[ruleId]]
    ELSE [err |-> "Rule does not exist", rule |-> ZeroRule]

\* the getter Solidity generates for `mapping(uint256 => Rule) public rules`
RulesGetter(ruleId) == [err |-> "ok", rule |-> rules[ruleId]]

\* getRuleCount
GetRuleCount == nextRuleId

\* getAllRules with the loop filling the array from the newest rule down
GetAllRules_Reversed == [i \in 1..nextRuleId |-> rules[nextRuleId - i]]

\* getAllRules
GetAllRules == [i \in 1..nextRuleId |-> rules[i - 1]]

NoReport == <<>>

Op(op, sender, metadata, report, err, ruleId, rule) ==
    [op |-> op, sender |-> sender, metadata |-> metadata, report |-> report, err |-> err,
     ruleId |-> ruleId, rule |-> rule]

\* onReport with _processReport run before the checks, whose revert does not undo it
OnReport_ProcessFirst(sender, metadata, report) ==
    LET check == OnReportCheck(sender, metadata)
        decoded == AbiDecode(report)
        err == IF check # "ok" THEN check
               ELSE IF ~decoded.ok THEN "DecodeError" ELSE "ok"
        written == WriteRule(decoded.rule)
    IN /\ nextRuleId < MaxRules
       /\ lastOp' = Op("onReport", sender, metadata, report, err, 0, ZeroRule)
       /\ IF decoded.ok
          THEN /\ nextRuleId' = written.nextRuleId
               /\ rules' = written.rules
               /\ accepted' = Append(accepted, decoded.rule)
               /\ appendedAt' = Append(appendedAt, clock)
          ELSE UNCHANGED <<nextRuleId, rules, accepted, appendedAt>>
       /\ UNCHANGED <<s_forwarderAddress, s_expectedAuthor, s_expectedWorkflowName,
                      s_expectedWorkflowId, usdcBalance>>

\* onReport(metadata, report) called by sender; a revert leaves storage as it was
OnReport(sender, metadata, report) ==
    LET check == OnReportCheck(sender, metadata)
        decoded == AbiDecode(report)
        err == IF check # "ok" THEN check
               ELSE IF ~decoded.ok THEN "DecodeError" ELSE "ok"
        written == WriteRule(decoded.rule)
    IN /\ err = "ok" => nextRuleId < MaxRules
       /\ lastOp' = Op("onReport", sender, metadata, report, err, 0, ZeroRule)
       /\ IF err = "ok"
          THEN /\ nextRuleId' = written.nextRuleId
               /\ rules' = written.rules
               /\ accepted' = Append(accepted, decoded.rule)
               /\ appendedAt' = Append(appendedAt, clock)
          ELSE UNCHANGED <<nextRuleId, rules, accepted, appendedAt>>
       /\ UNCHANGED <<s_forwarderAddress, s_expectedAuthor, s_expectedWorkflowName,
                      s_expectedWorkflowId, usdcBalance>>

\* onlyOwner
OnlyOwner(sender) == IF sender = Owner THEN "ok" ELSE "OwnableUnauthorizedAccount"

SetForwarderAddress(sender, forwarder) ==
    /\ lastOp' = Op("setForwarderAddress", sender, NoMetadata, NoReport, OnlyOwner(sender), 0, ZeroRule)
    /\ s_forwarderAddress' = IF OnlyOwner(sender) = "ok" THEN forwarder ELSE s_forwarderAddress
    /\ UNCHANGED <<s_expectedAuthor, s_expectedWorkflowName, s_expectedWorkflowId,
                   nextRuleId, rules, usdcBalance, accepted, appendedAt>>

SetExpectedAuthor(sender, author) ==
    /\ lastOp' = Op("setExpectedAuthor", sender, NoMetadata, NoReport, OnlyOwner(sender), 0, ZeroRule)
    /\ s_expectedAuthor' = IF OnlyOwner(sender) = "ok" THEN author ELSE s_expectedAuthor
    /\ UNCHANGED <<s_forwarderAddress, s_expectedWorkflowName, s_expectedWorkflowId,
                   nextRuleId, rules, usdcBalance, accepted, appendedAt>>

SetExpectedWorkflowName(sender, name) ==
    /\ lastOp' = Op("setExpectedWorkflowName", sender, NoMetadata, NoReport, OnlyOwner(sender), 0, ZeroRule)
    /\ s_expectedWorkflowName' =
          IF OnlyOwner(sender) = "ok" THEN WorkflowNameBytes(name) ELSE s_expectedWorkflowName
    /\ UNCHANGED <<s_forwarderAddress, s_expectedAuthor, s_expectedWorkflowId,
                   nextRuleId, rules, usdcBalance, accepted, appendedAt>>

SetExpectedWorkflowId(sender, id) ==
    /\ lastOp' = Op("setExpectedWorkflowId", sender, NoMetadata, NoReport, OnlyOwner(sender), 0, ZeroRule)
    /\ s_expectedWorkflowId' = IF OnlyOwner(sender) = "ok" THEN id ELSE s_expectedWorkflowId
    /\ UNCHANGED <<s_forwarderAddress, s_expectedAuthor, s_expectedWorkflowName,
                   nextRuleId, rules, usdcBalance, accepted, appendedAt>>

\* an x402 payment: USDC transferred to the registry by the token contract
ReceiveUSDC ==
    /\ usdcBalance < MaxBalance
    /\ usdcBalance' = usdcBalance + 1
    /\ lastOp' = Op("receiveUSDC", 0, NoMetadata, NoReport, "ok", 0, ZeroRule)
    /\ UNCHANGED <<s_forwarderAddress, s_expectedAuthor, s_expectedWorkflowName,
                   s_expectedWorkflowId, nextRuleId, rules, accepted, appendedAt>>

\* withdrawUSDC(to, amount)
WithdrawUSDC(sender, to, amount) ==
    LET err == IF OnlyOwner(sender) # "ok" THEN OnlyOwner(sender)
               ELSE IF to = 0 THEN "invalid recipient address"
               ELSE IF ~(amount > 0) THEN "amount must be greater than zero"
               ELSE IF ~(usdcBalance >= amount) THEN "insufficient USDC balance"
               ELSE "ok"
    IN /\ lastOp' = Op("withdrawUSDC", sender, NoMetadata, NoReport, err, 0, ZeroRule)
       /\ usdcBalance' = IF err = "ok" THEN usdcBalance - amount ELSE usdcBalance
       /\ UNCHANGED <<s_forwarderAddress, s_expectedAuthor, s_expectedWorkflowName,
                      s_expectedWorkflowId, nextRuleId, rules, accepted, appendedAt>>

\* the view functions: getRule(i), rules(i), getRuleCount(), getAllRules()
CallGetRule(ruleId) ==
    /\ lastOp' = Op("getRule", 0, NoMetadata, NoReport, GetRule(ruleId).err, ruleId, GetRule(ruleId).rule)
    /\ UNCHANGED <<s_forwarderAddress, s_expectedAuthor, s_expectedWorkflowName,
                   s_expectedWorkflowId, nextRuleId, rules, usdcBalance, accepted, appendedAt>>

CallRulesGetter(ruleId) ==
    /\ lastOp' = Op("rules", 0, NoMetadata, NoReport, RulesGetter(ruleId).err, ruleId,
                    RulesGetter(ruleId).rule)
    /\ UNCHANGED <<s_forwarderAddress, s_expectedAuthor, s_expectedWorkflowName,
                   s_expectedWorkflowId, nextRuleId, rules, usdcBalance, accepted, appendedAt>>

CallGetRuleCount ==
    /\ lastOp' = Op("getRuleCount", 0, NoMetadata, NoReport, "ok", GetRuleCount, ZeroRule)
    /\ UNCHANGED <<s_forwarderAddress, s_expectedAuthor, s_expectedWorkflowName,
                   s_expectedWorkflowId, nextRuleId, rules, usdcBalance, accepted, appendedAt>>

CallGetAllRules ==
    /\ lastOp' = Op("getAllRules", 0, NoMetadata, NoReport, "ok", Len(GetAllRules), ZeroRule)
    /\ UNCHANGED <<s_forwarderAddress, s_expectedAuthor, s_expectedWorkflowName,
                   s_expectedWorkflowId, nextRuleId, rules, usdcBalance, accepted, appendedAt>>

----------------------------------------------------------------------------
(* The cron workflow: onCronTrigger *)

\* rules older than RuleTTL seconds are skipped (config.ruleTTL)
RuleTTL == 1
\* the clock reads 0..MaxNow at the start of a cycle's loop
MaxNow == 2

\* Chainlink USD feeds carry 8 decimals: BigInt(10 ** 8)
FeedScale == 100000000

\* the asset symbols and condition strings reports carry: the supported ones and
\* one of each that is not
Assets == {"BTC", "ETH", "LINK", "DOGE"}
Conditions == {"gt", "lt", "gte", "lte", "eq"}
\* the targets and creation times rules carry
Targets == {1}
CreatedAts == {0, 1}
\* the rules written to the registry in CronSpec: every condition on BTC at
\* every creation time, and each other asset under gte
CronRuleSet ==
    {Rule(1, "BTC", c, t, ca) : c \in Conditions, t \in Targets, ca \in CreatedAts}
      \cup {Rule(1, a, "gte", t, 1) : a \in Assets \ {"BTC"}, t \in Targets}

\* latestRoundData answers: $0, $1.50, $2
Answers == {0, FeedScale + FeedScale \div 2, 2 * FeedScale}
\* what a feed read comes back with
FeedResponses ==
    {[kind |-> "ok", answer |-> a] : a \in Answers}
      \cup {[kind |-> "unreachable", answer |-> Null], [kind |-> "malformed", answer |-> Null]}
\* what each feed comes back with: the BTC feed with every response, the ETH and
\* LINK feeds with a positive answer or a failed call
FeedResponsesOf(feed) ==
    IF feed = "price_btc" THEN FeedResponses
    ELSE {r \in FeedResponses : r.kind = "unreachable" \/ (r.kind = "ok" /\ r.answer = 2 * FeedScale)}
\* what the Pushover endpoint answers: transport status and the body's status field
PushoverResponses ==
    {[statusCode |-> 200, status |-> 1], [statusCode |-> 200, status |-> 0],
     [statusCode |-> 500, status |-> 0]}
\* no response: the request was never made
NoResponse == [statusCode |-> 0, status |-> 0]

\* the place of a price that was not read because the read threw
Failed == -2

NoResult == [kind |-> "none", cause |-> "", processed |-> 0, sent |-> 0]

\* getPriceData: callContract(...).result() throws when the call fails,
\* decodeFunctionResult when the data is not a latestRoundData tuple
GetPriceData(resp) ==
    IF resp.kind = "ok"
    THEN [threw |-> FALSE, answer |-> resp.answer]
    ELSE [threw |-> TRUE, answer |-> Failed]

\* checkCondition with gte compared strictly
CheckCondition_GteStrict(currentPrice, targetPrice, condition) ==
    CASE condition = "gt" -> currentPrice > targetPrice
      [] condition = "lt" -> currentPrice < targetPrice
      [] condition = "gte" -> currentPrice > targetPrice
      [] condition = "lte" -> currentPrice <= targetPrice
      [] OTHER -> FALSE

\* checkCondition whose lt case reads as lte (a fall-through)
CheckCondition_LtFallsThrough(currentPrice, targetPrice, condition) ==
    CASE condition = "gt" -> currentPrice > targetPrice
      [] condition = "lt" -> currentPrice <= targetPrice
      [] condition = "gte" -> currentPrice >= targetPrice
      [] condition = "lte" -> currentPrice <= targetPrice
      [] OTHER -> FALSE

\* checkCondition whose default branch returns true
CheckCondition_DefaultTrue(currentPrice, targetPrice, condition) ==
    CASE condition = "gt" -> currentPrice > targetPrice
      [] condition = "lt" -> currentPrice < targetPrice
      [] condition = "gte" -> currentPrice >= targetPrice
      [] condition = "lte" -> currentPrice <= targetPrice
      [] OTHER -> TRUE

\* checkCondition
CheckCondition(currentPrice, targetPrice, condition) ==
    CASE condition = "gt" -> currentPrice > targetPrice
      [] condition = "lt" -> currentPrice < targetPrice
      [] condition = "gte" -> currentPrice >= targetPrice
      [] condition = "lte" -> currentPrice <= targetPrice
      [] OTHER -> FALSE

\* the TTL test with >= in place of >
OlderThanTTL_Inclusive(rule, now) == now - rule.createdAt >= RuleTTL

\* the TTL test of the loop body: ruleAge > ruleTTL
OlderThanTTL(rule, now) == now - rule.createdAt > RuleTTL

\* the asset resolution with a final else that takes the BTC answer
CurrentPrice_DefaultBTC(rule, data) ==
    IF rule.asset = "BTC" THEN data.btc
    ELSE IF rule.asset = "ETH" THEN data.eth
    ELSE IF rule.asset = "LINK" THEN data.link
    ELSE data.btc

\* the loop body's asset resolution: the feed answer, or Null (currentPrice === null)
CurrentPrice(rule, data) ==
    IF rule.asset = "BTC" THEN data.btc
    ELSE IF rule.asset = "ETH" THEN data.eth
    ELSE IF rule.asset = "LINK" THEN data.link
    ELSE Null

\* priceData[rule.asset.toLowerCase()]
AssetPriceData(rule, data) ==
    IF rule.asset \in {"BTC", "btc"} THEN data.btc
    ELSE IF rule.asset \in {"ETH", "eth"} THEN data.eth
    ELSE IF rule.asset \in {"LINK", "link"} THEN data.link
    ELSE Null

\* ok(resp): a 2xx transport status
Ok(resp) == resp.statusCode >= 200 /\ resp.statusCode < 300

\* getConditionSymbol
GetConditionSymbol(condition) ==
    CASE condition = "gt" -> ">"
      [] condition = "gte" -> ">="
      [] condition = "lt" -> "<"
      [] condition = "lte" -> "<="
      [] OTHER -> condition

\* (Number(answer) / 10 ** 8).toLocaleString with two fraction digits, in cents
FormatPrice(answer) == (answer + FeedScale \div 200) \div (FeedScale \div 100)

\* the request postPushoverData builds: fixed url, method, headers, credentials and
\* title, and the message made of asset, formatted price, symbol and target
PushoverRequest(rule, data) ==
    [asset |-> rule.asset, price |-> FormatPrice(AssetPriceData(rule, data)),
     symbol |-> GetConditionSymbol(rule.condition), target |-> rule.targetPriceUsd]

\* a stored response; `by` is the index of the rule whose dispatch stored it and
\* `prior` tells that it was stored in the cycle before the running one
CacheEntry(req, resp, by, prior) ==
    [request |-> req, response |-> resp, by |-> by, prior |-> prior]

\* sendRequester.sendRequest(req) with cacheSettings {store: true, maxAge: "60s"}:
\* a stored response to an identical request is accepted in place of a call to the
\* endpoint; otherwise the call is made (and answered resp)
SendRequest(req, resp) ==
    IF \E e \in cache : e.request = req
    THEN [response |-> (CHOOSE e \in cache : e.request = req).response,
          delivered |-> FALSE]
    ELSE [response |-> resp, delivered |-> TRUE]

\* postPushoverData without the check of the body's status field
PostPushoverData_IgnoreBody(rule, data, resp) ==
    LET answer == AssetPriceData(rule, data)
        sent == SendRequest(PushoverRequest(rule, data), resp)
    IN IF answer = Null \/ answer = 0
       THEN [requested |-> FALSE, delivered |-> FALSE, response |-> NoResponse,
             threw |-> TRUE, error |-> "Price data not available"]
       ELSE IF ~Ok(sent.response)
       THEN [requested |-> TRUE, delivered |-> sent.delivered, response |-> sent.response,
             threw |-> TRUE, error |-> "request failed with status"]
       ELSE [requested |-> TRUE, delivered |-> sent.delivered, response |-> sent.response,
             threw |-> FALSE, error |-> ""]

\* postPushoverData: whether sendRequest was called, whether the request reached
\* the endpoint, the response, whether the call threw, and the error it threw
PostPushoverData(rule, data, resp) ==
    LET answer == AssetPriceData(rule, data)
        sent == SendRequest(PushoverRequest(rule, data), resp)
    IN IF answer = Null \/ answer = 0
       THEN [requested |-> FALSE, delivered |-> FALSE, response |-> NoResponse,
             threw |-> TRUE, error |-> "Price data not available"]
       ELSE IF ~Ok(sent.response)
       THEN [requested |-> TRUE, delivered |-> sent.delivered, response |-> sent.response,
             threw |-> TRUE, error |-> "request failed with status"]
       ELSE IF sent.response.status # 1
       THEN [requested |-> TRUE, delivered |-> sent.delivered, response |-> sent.response,
             threw |-> TRUE, error |-> "returned error"]
       ELSE [requested |-> TRUE, delivered |-> sent.delivered, response |-> sent.response,
             threw |-> FALSE, error |-> ""]

\* what the loop body did with rules[index]: the branch taken, the price compared,
\* the httpClient.sendRequest calls made, the requests that left for Pushover, the
\* response that came back and the error caught
LogEntry(i, outcome, priceInUsd, conditionMet, dispatches, requests, response, error) ==
    [index |-> i, outcome |-> outcome, priceInUsd |-> priceInUsd,
     conditionMet |-> conditionMet, dispatches |-> dispatches, requests |-> requests,
     response |-> response, error |-> error]

\* the body of rules.forEach for one rule: the log entry it leaves
EvaluateRule(i, rule, data, now, resp) ==
    IF OlderThanTTL(rule, now)
    THEN LogEntry(i, "expired", Null, FALSE, 0, 0, NoResponse, "")
    ELSE LET currentPrice == CurrentPrice(rule, data)
         IN IF currentPrice = Null
            THEN LogEntry(i, "unknown asset", Null, FALSE, 0, 0, NoResponse, "")
            ELSE LET priceInUsd == currentPrice \div FeedScale
                     conditionMet == CheckCondition(priceInUsd, rule.targetPriceUsd,
                                                    rule.condition)
                     post == PostPushoverData(rule, data, resp)
                 IN IF ~conditionMet
                    THEN LogEntry(i, "not met", priceInUsd, FALSE, 0, 0, NoResponse, "")
                    ELSE IF post.threw
                    THEN LogEntry(i, "failed", priceInUsd, TRUE, 1,
                                  IF post.delivered THEN 1 ELSE 0, post.response, post.error)
                    ELSE LogEntry(i, "sent", priceInUsd, TRUE, 1,
                                  IF post.delivered THEN 1 ELSE 0, post.response, "")

\* notificationsSent++ moved out of the try block: counted for every dispatch
NotificationsSentAfter_CountAll(sent, entry) ==
    IF entry.dispatches > 0 THEN sent + 1 ELSE sent

\* the try/catch around the dispatch: notificationsSent++ only when it returned
NotificationsSentAfter(sent, entry) ==
    IF entry.outcome = "sent" THEN sent + 1 ELSE sent

\* an exception that leaves onCronTrigger
CronThrows(cause) ==
    /\ pc' = "done"
    /\ cycleResult' = [kind |-> "error", cause |-> cause, processed |-> 0, sent |-> 0]

\* the cycle going to the rule set at once, prices left to be read per rule
CronStart_SkipPrices ==
    /\ pc = "idle"
    /\ pc' = "count"
    /\ UNCHANGED <<priceData, ruleCount, cronRules, index, currentTimestamp,
                   notificationsSent, cycleResult, ruleLog, cache, bulk, lookups, clock>>
    /\ UNCHANGED <<registryVars, pipelineVars>>

\* the scheduler fires: secrets, network and EVM client are set up
CronStart ==
    /\ pc = "idle"
    /\ pc' = "price_btc"
    /\ UNCHANGED <<priceData, ruleCount, cronRules, index, currentTimestamp,
                   notificationsSent, cycleResult, ruleLog, cache, bulk, lookups, clock>>
    /\ UNCHANGED <<registryVars, pipelineVars>>

\* Step 1: one getPriceData call, BTC then ETH then LINK
FetchPrice ==
    /\ pc \in {"price_btc", "price_eth", "price_link"}
    /\ \E resp \in FeedResponsesOf(pc) :
         LET got == GetPriceData(resp)
         IN /\ priceData' = CASE pc = "price_btc" -> [priceData EXCEPT !.btc = got.answer]
                              [] pc = "price_eth" -> [priceData EXCEPT !.eth = got.answer]
                              [] pc = "price_link" -> [priceData EXCEPT !.link = got.answer]
            /\ IF got.threw
               THEN CronThrows(pc)
               ELSE /\ pc' = CASE pc = "price_btc" -> "price_eth"
                               [] pc = "price_eth" -> "price_link"
                               [] pc = "price_link" -> "count"
                    /\ UNCHANGED cycleResult
    /\ UNCHANGED <<ruleCount, cronRules, index, currentTimestamp, notificationsSent, ruleLog,
                   cache, bulk, lookups, clock>>
    /\ UNCHANGED <<registryVars, pipelineVars>>

\* what a callContract on the registry comes back with: the call's result, or
\* .result() throws
CallResponses == {"ok", "failed"}

\* Step 2, getAllRules: the getRuleCount call
ReadRuleCount ==
    /\ pc = "count"
    /\ \E resp \in CallResponses :
         IF resp = "failed"
         THEN /\ CronThrows("getRuleCount")
              /\ UNCHANGED ruleCount
         ELSE /\ ruleCount' = GetRuleCount
              /\ pc' = "bulk"
              /\ UNCHANGED cycleResult
    /\ UNCHANGED <<priceData, cronRules, index, currentTimestamp, notificationsSent,
                   ruleLog, cache, bulk, lookups, clock>>
    /\ UNCHANGED <<registryVars, pipelineVars>>

\* Step 2, getAllRules: the bulk result used whatever its length
ReadAllRules_Unchecked ==
    /\ pc = "bulk"
    /\ \E resp \in CallResponses :
         IF resp = "failed"
         THEN /\ CronThrows("getAllRules")
              /\ UNCHANGED <<cronRules, bulk>>
         ELSE LET decodedResult == GetAllRules
              IN /\ bulk' = decodedResult
                 /\ cronRules' = decodedResult
                 /\ pc' = "fetched"
                 /\ UNCHANGED cycleResult
    /\ UNCHANGED <<priceData, ruleCount, index, currentTimestamp, notificationsSent,
                   ruleLog, cache, lookups, clock>>
    /\ UNCHANGED <<registryVars, pipelineVars>>

\* Step 2, getAllRules: the getAllRules call, used if its length equals the count
ReadAllRules ==
    /\ pc = "bulk"
    /\ \E resp \in CallResponses :
         IF resp = "failed"
         THEN /\ CronThrows("getAllRules")
              /\ UNCHANGED <<cronRules, bulk>>
         ELSE LET decodedResult == GetAllRules
              IN /\ bulk' = decodedResult
                 /\ IF Len(decodedResult) = ruleCount
                    THEN /\ cronRules' = decodedResult
                         /\ pc' = "fetched"
                    ELSE /\ cronRules' = <<>>
                         /\ pc' = IF ruleCount > 0 THEN "fallback" ELSE "fetched"
                 /\ UNCHANGED cycleResult
    /\ UNCHANGED <<priceData, ruleCount, index, currentTimestamp, notificationsSent,
                   ruleLog, cache, lookups, clock>>
    /\ UNCHANGED <<registryVars, pipelineVars>>

\* Step 2, getAllRules: one getRule(i) call of the fallback loop
ReadRule ==
    /\ pc = "fallback"
    /\ \E resp \in CallResponses :
         LET i == Len(cronRules)
             got == GetRule(i)
         IN /\ lookups' = Append(lookups, i)
            /\ IF resp = "failed" \/ got.err # "ok"
               THEN /\ CronThrows(IF resp = "failed" THEN "getRule" ELSE got.err)
                    /\ UNCHANGED cronRules
               ELSE /\ cronRules' = Append(cronRules, got.rule)
                    /\ pc' = IF i + 1 < ruleCount THEN "fallback" ELSE "fetched"
                    /\ UNCHANGED cycleResult
    /\ UNCHANGED <<priceData, ruleCount, index, currentTimestamp, notificationsSent, ruleLog,
                   cache, bulk, clock>>
    /\ UNCHANGED <<registryVars, pipelineVars>>

\* rules.length === 0 returns at once; otherwise the loop is set up and the clock,
\* which reads now, is read
StartLoopAt(now) ==
    /\ pc = "fetched"
    /\ IF Len(cronRules) = 0
       THEN /\ pc' = "done"
            /\ cycleResult' = [kind |-> "no rules", cause |-> "", processed |-> 0, sent |-> 0]
            /\ UNCHANGED <<currentTimestamp, notificationsSent, index, ruleLog>>
       ELSE /\ pc' = "loop"
            /\ currentTimestamp' = now
            /\ notificationsSent' = 0
            /\ index' = 0
            /\ ruleLog' = <<>>
            /\ UNCHANGED cycleResult
    /\ UNCHANGED <<priceData, ruleCount, cronRules, cache, bulk, lookups, clock>>
    /\ UNCHANGED <<registryVars, pipelineVars>>

\* the loop set up in a cycle that runs at any time
StartLoop == \E now \in 0..MaxNow : StartLoopAt(now)

\* the loop set up at the time the clock shows
TimedStartLoop == StartLoopAt(clock)

\* a second passes
Tick ==
    /\ clock < MaxNow
    /\ clock' = clock + 1
    /\ UNCHANGED <<pc, priceData, ruleCount, cronRules, index, currentTimestamp,
                   notificationsSent, cycleResult, ruleLog, cache, bulk, lookups>>
    /\ UNCHANGED <<registryVars, pipelineVars>>

\* Step 3: the loop body for rules[index], whatever the Pushover endpoint answers
CheckRule ==
    /\ pc = "loop"
    /\ index < Len(cronRules)
    /\ \E resp \in PushoverResponses :
         LET entry == EvaluateRule(index, cronRules[index + 1], priceData,
                                   currentTimestamp, resp)
         IN /\ ruleLog' = Append(ruleLog, entry)
            /\ notificationsSent' = NotificationsSentAfter(notificationsSent, entry)
            /\ cache' = IF entry.requests > 0
                        THEN cache \cup {CacheEntry(PushoverRequest(cronRules[index + 1],
                                                                     priceData),
                                                     entry.response, index, FALSE)}
                        ELSE cache
    /\ index' = index + 1
    /\ UNCHANGED <<pc, priceData, ruleCount, cronRules, currentTimestamp, cycleResult,
                   bulk, lookups, clock>>
    /\ UNCHANGED <<registryVars, pipelineVars>>

\* Step 4: the return value after the loop
CronReturn ==
    /\ pc = "loop"
    /\ index = Len(cronRules)
    /\ pc' = "done"
    /\ cycleResult' = [kind |-> "result", cause |-> "", processed |-> Len(cronRules),
                       sent |-> notificationsSent]
    /\ UNCHANGED <<priceData, ruleCount, cronRules, index, currentTimestamp,
                   notificationsSent, ruleLog, cache, bulk, lookups, clock>>
    /\ UNCHANGED <<registryVars, pipelineVars>>

\* the cycle is over; the next tick starts from fresh locals
ResetLocals ==
    /\ pc' = "idle"
    /\ priceData' = [btc |-> Null, eth |-> Null, link |-> Null]
    /\ ruleCount' = Null
    /\ cronRules' = <<>>
    /\ index' = 0
    /\ currentTimestamp' = Null
    /\ notificationsSent' = 0
    /\ cycleResult' = NoResult
    /\ ruleLog' = <<>>
    /\ bulk' = <<>>
    /\ lookups' = <<>>
    /\ UNCHANGED clock

\* the next tick comes after the stored responses have passed maxAge
CronFinish ==
    /\ pc = "done"
    /\ ResetLocals
    /\ cache' = {}
    /\ UNCHANGED <<registryVars, pipelineVars>>

\* the next tick comes within maxAge of the responses this cycle stored (and after
\* maxAge of those stored before it)
CronFinishSoon ==
    /\ pc = "done"
    /\ ResetLocals
    /\ cache' = {CacheEntry(e.request, e.response, e.by, TRUE) : e \in {c \in cache : ~c.prior}}
    /\ UNCHANGED <<registryVars, pipelineVars>>

\* the HTTP-trigger workflow's write lands: the forwarder calls onReport
WriteReport ==
    /\ pc \in {"idle", "count", "bulk", "fallback"}
    /\ \E r \in CronRuleSet : OnReport(ForwarderAddress, NoMetadata, EncodeAbiParameters(r))
    /\ UNCHANGED <<cronVars, pipelineVars>>

----------------------------------------------------------------------------
(* The server: POST /alerts behind the x402 payment middleware *)

\* at most MaxAlerts alerts are created
MaxAlerts == 2

\* wallet addresses that pay for alerts
Payers == {"0xA"}
\* the x-payment header of a request: absent, not a valid payment, or a valid
\* payment, whose payload carries an authorisation from a payer or none ("")
Payments ==
    {[kind |-> "none", from |-> ""], [kind |-> "invalid", from |-> ""]}
      \cup {[kind |-> "valid", from |-> p] : p \in Payers \cup {""}}
\* request bodies: a complete one and one without targetPriceUsd
NoNumber == -1
Bodies ==
    {[asset |-> "ETH", condition |-> "lt", targetPriceUsd |-> 2],
     [asset |-> "BTC", condition |-> "gt", targetPriceUsd |-> NoNumber]}

\* the position of a value in the set of values the model draws it from
PayerCode(p) == IF p = "0xA" THEN 0 ELSE IF p = "unknown" THEN 1 ELSE 2
AssetCode(a) == IF a = "BTC" THEN 0 ELSE 1
ConditionCode(c) == IF c = "gt" THEN 0 ELSE 1

\* JSON.stringify(alertData): the five values in the order payer, asset, condition,
\* targetPriceUsd, createdAt
AlertDataJson(alertData) ==
    <<alertData.payer, alertData.asset, alertData.condition, alertData.targetPriceUsd,
      alertData.createdAt>>

\* createHash("sha256").update(json).digest("hex"): the digest as a number, one per
\* input (no two inputs of the model collide); never 0
Sha256Hex(json) ==
    1 + PayerCode(json[1]) + 3 * (AssetCode(json[2]) + 2 * (ConditionCode(json[3])
          + 2 * (json[4] + 3 * json[5])))

\* the id with the number of alerts created so far mixed in
AlertId_Salted(alertData) ==
    Sha256Hex(AlertDataJson(alertData)) + 1000 * BagCardinality(alerts)

\* the alert id: a hex string without 0x prefix
AlertId(alertData) == Sha256Hex(AlertDataJson(alertData))

\* a hex string: its digits as a number, and whether it starts with "0x"
HexString(digits, prefixed) == [digits |-> digits, prefixed |-> prefixed]

NoAlert == [id |-> HexString(0, FALSE), payer |-> "", asset |-> "", condition |-> "",
            targetPriceUsd |-> 0, createdAt |-> 0]

\* paymentMiddleware: the x-payment header is there and the facilitator verifies it
Verified(payment) == payment.kind = "valid"

\* the response to a request, and whether the request's payment was verified
Response(status, alert, verified) ==
    [status |-> status, alert |-> alert, verified |-> verified]

\* POST /alerts with a middleware that lets every request with an x-payment header pass
PostAlerts_AnyHeader(payment, body, now) ==
    IF payment.kind = "none"
    THEN \* paymentMiddleware: no valid payment header
         /\ serverResponse' = Response(402, NoAlert, Verified(payment))
         /\ UNCHANGED alerts
    ELSE IF body.targetPriceUsd = NoNumber
    THEN \* Step 1: a required field is missing
         /\ serverResponse' = Response(400, NoAlert, Verified(payment))
         /\ UNCHANGED alerts
    ELSE LET payer == IF payment.from = "" THEN "unknown" ELSE payment.from
             alertData == [payer |-> payer, asset |-> body.asset,
                           condition |-> body.condition,
                           targetPriceUsd |-> body.targetPriceUsd, createdAt |-> now]
             alert == [id |-> HexString(AlertId(alertData), FALSE), payer |-> payer,
                       asset |-> body.asset, condition |-> body.condition,
                       targetPriceUsd |-> body.targetPriceUsd, createdAt |-> now]
         IN /\ BagCardinality(alerts) < MaxAlerts
            /\ alerts' = alerts (+) SetToBag({alert})
            /\ serverResponse' = Response(201, alert, Verified(payment))

\* POST /alerts: the payment middleware, then the handler
PostAlerts(payment, body, now) ==
    IF ~Verified(payment)
    THEN \* paymentMiddleware: no valid payment header
         /\ serverResponse' = Response(402, NoAlert, Verified(payment))
         /\ UNCHANGED alerts
    ELSE IF body.targetPriceUsd = NoNumber
    THEN \* Step 1: a required field is missing
         /\ serverResponse' = Response(400, NoAlert, Verified(payment))
         /\ UNCHANGED alerts
    ELSE LET payer == IF payment.from = "" THEN "unknown" ELSE payment.from
             alertData == [payer |-> payer, asset |-> body.asset,
                           condition |-> body.condition,
                           targetPriceUsd |-> body.targetPriceUsd, createdAt |-> now]
             alert == [id |-> HexString(AlertId(alertData), FALSE), payer |-> payer,
                       asset |-> body.asset, condition |-> body.condition,
                       targetPriceUsd |-> body.targetPriceUsd, createdAt |-> now]
         IN /\ BagCardinality(alerts) < MaxAlerts
            /\ alerts' = alerts (+) SetToBag({alert})
            /\ serverResponse' = Response(201, alert, Verified(payment))

\* the payload the server logs for the HTTP trigger
WorkflowPayload(alert) ==
    [id |-> alert.id, asset |-> alert.asset, condition |-> alert.condition,
     targetPriceUsd |-> alert.targetPriceUsd, createdAt |-> alert.createdAt]

----------------------------------------------------------------------------
(* The server: POST /chat, the model's function call and the paid alert creation *)

\* Supported cryptocurrency assets for price alerts
ALLOWED_ASSETS == {"BTC", "ETH", "LINK"}
\* Supported price alert conditions
ALLOWED_CONDITIONS == {"gt", "lt", "gte", "lte"}

\* req.body.message: a string, or missing / not a string
ChatMessages == {"text", "missing"}

\* JSON.parse(toolCall.function.arguments): the extracted parameters; the target is
\* a positive number, zero, a negative number or not a number
ChatArgs ==
    [asset : {"BTC", "ETH", "DOGE"}, condition : {"gt", "lt", "eq"},
     targetPriceUsd : {NoNumber, -2, 0, 2}]
NoArgs == [asset |-> "", condition |-> "", targetPriceUsd |-> NoNumber]

\* what the completion call gives: kind "threw" (the call fails), "none" (no
\* choices[0].message) or "message"; a message has content or not, and no tool
\* call, a call of another function, or a call of create_price_alert whose
\* arguments parse or not
LlmResponse(kind, content, tool, parsable, args) ==
    [kind |-> kind, content |-> content, tool |-> tool, parsable |-> parsable,
     args |-> args]
NoLlm == LlmResponse("not called", FALSE, "none", FALSE, NoArgs)
LlmResponses ==
    {LlmResponse("threw", FALSE, "none", FALSE, NoArgs),
     LlmResponse("none", FALSE, "none", FALSE, NoArgs)}
      \cup {LlmResponse("message", c, t, FALSE, NoArgs) :
               c \in BOOLEAN, t \in {"none", "other", "create_price_alert"}}
      \cup {LlmResponse("message", FALSE, "create_price_alert", TRUE, a) :
               a \in ChatArgs}

\* the payment x402-fetch attaches for the server's wallet: the facilitator
\* verifies it or not
AgentPayments == {[kind |-> "valid", from |-> "0xA"], [kind |-> "invalid", from |-> ""]}

ChatResult(message, llm, status, calls) ==
    [message |-> message, llm |-> llm, status |-> status, calls |-> calls]
NoChat == ChatResult("", NoLlm, 0, 0)

\* createPaidPriceAlert: POST /alerts through fetchWithPayment; throws unless the
\* response is ok and carries an alert
CreatePaidPriceAlert(args, payment, now) ==
    PostAlerts(payment, args, now)

\* POST /chat without the check of the target price
PostChat_NoTargetCheck(message, llm, payment, now) ==
    IF message # "text"
    THEN /\ chatResult' = ChatResult(message, NoLlm, 400, 0)
         /\ UNCHANGED <<alerts, serverResponse>>
    ELSE IF llm.kind = "threw"
    THEN /\ chatResult' = ChatResult(message, llm, 500, 0)
         /\ UNCHANGED <<alerts, serverResponse>>
    ELSE IF llm.kind = "none"
    THEN /\ chatResult' = ChatResult(message, llm, 500, 0)
         /\ UNCHANGED <<alerts, serverResponse>>
    ELSE IF llm.content /\ llm.tool = "none"
    THEN /\ chatResult' = ChatResult(message, llm, 200, 0)
         /\ UNCHANGED <<alerts, serverResponse>>
    ELSE IF llm.tool = "create_price_alert"
    THEN IF ~llm.parsable
         THEN /\ chatResult' = ChatResult(message, llm, 500, 0)
              /\ UNCHANGED <<alerts, serverResponse>>
         ELSE IF llm.args.asset \notin ALLOWED_ASSETS
         THEN /\ chatResult' = ChatResult(message, llm, 400, 0)
              /\ UNCHANGED <<alerts, serverResponse>>
         ELSE IF llm.args.condition \notin ALLOWED_CONDITIONS
         THEN /\ chatResult' = ChatResult(message, llm, 400, 0)
              /\ UNCHANGED <<alerts, serverResponse>>
         ELSE /\ CreatePaidPriceAlert(llm.args, payment, now)
              /\ chatResult' =
                   ChatResult(message, llm,
                              IF serverResponse'.status = 201 THEN 200 ELSE 500, 1)
    ELSE /\ chatResult' = ChatResult(message, llm, 200, 0)
         /\ UNCHANGED <<alerts, serverResponse>>

\* POST /chat: the message check, the completion call, then the text reply, the
\* function call (parse, three checks, createPaidPriceAlert) or the fallback reply
PostChat(message, llm, payment, now) ==
    IF message # "text"
    THEN \* 400 "Missing 'message' in body": the model is not called
         /\ chatResult' = ChatResult(message, NoLlm, 400, 0)
         /\ UNCHANGED <<alerts, serverResponse>>
    ELSE IF llm.kind = "threw"
    THEN \* the outer catch
         /\ chatResult' = ChatResult(message, llm, 500, 0)
         /\ UNCHANGED <<alerts, serverResponse>>
    ELSE IF llm.kind = "none"
    THEN \* 500 "No response from Gemini"
         /\ chatResult' = ChatResult(message, llm, 500, 0)
         /\ UNCHANGED <<alerts, serverResponse>>
    ELSE IF llm.content /\ llm.tool = "none"
    THEN \* the text reply
         /\ chatResult' = ChatResult(message, llm, 200, 0)
         /\ UNCHANGED <<alerts, serverResponse>>
    ELSE IF llm.tool = "create_price_alert"
    THEN IF ~llm.parsable
         THEN \* 500 "Failed to parse function arguments"
              /\ chatResult' = ChatResult(message, llm, 500, 0)
              /\ UNCHANGED <<alerts, serverResponse>>
         ELSE IF llm.args.asset \notin ALLOWED_ASSETS
         THEN /\ chatResult' = ChatResult(message, llm, 400, 0)
              /\ UNCHANGED <<alerts, serverResponse>>
         ELSE IF llm.args.condition \notin ALLOWED_CONDITIONS
         THEN /\ chatResult' = ChatResult(message, llm, 400, 0)
              /\ UNCHANGED <<alerts, serverResponse>>
         ELSE IF llm.args.targetPriceUsd = NoNumber \/ llm.args.targetPriceUsd <= 0
         THEN /\ chatResult' = ChatResult(message, llm, 400, 0)
              /\ UNCHANGED <<alerts, serverResponse>>
         ELSE \* the one createPaidPriceAlert call; 500 when it throws
              /\ CreatePaidPriceAlert(llm.args, payment, now)
              /\ chatResult' =
                   ChatResult(message, llm,
                              IF serverResponse'.status = 201 THEN 200 ELSE 500, 1)
    ELSE \* the fallback text reply
         /\ chatResult' = ChatResult(message, llm, 200, 0)
         /\ UNCHANGED <<alerts, serverResponse>>

----------------------------------------------------------------------------
(* The HTTP-trigger workflow: onHttpTrigger *)

\* payload.input is empty
EmptyPayload == [empty |-> TRUE, id |-> HexString(0, FALSE), asset |-> "", condition |-> "",
                 targetPriceUsd |-> 0, createdAt |-> 0]
\* inputData.id is undefined
NoId == HexString(-1, FALSE)

JsonPayload(id, asset, condition, targetPriceUsd, createdAt) ==
    [empty |-> FALSE, id |-> id, asset |-> asset, condition |-> condition,
     targetPriceUsd |-> targetPriceUsd, createdAt |-> createdAt]

\* payloads typed into the trigger by hand: an id that already carries 0x, a
\* negative target and a payload without id
RawPayloads ==
    {JsonPayload(HexString(7, TRUE), "LINK", "lte", 2, 1),
     JsonPayload(HexString(8, FALSE), "BTC", "gt", -2, 0),
     JsonPayload(NoId, "BTC", "gt", 1, 0)}

\* the payloads the trigger receives: the empty one, the ones the server logged,
\* and the hand-typed ones
HttpPayloads ==
    {EmptyPayload}
      \cup {[empty |-> FALSE] @@ WorkflowPayload(a) : a \in BagToSet(alerts)}
      \cup RawPayloads

\* alert.id.startsWith("0x") ? alert.id : `0x${alert.id}`
IdBytes32(id) == IF id.prefixed THEN id ELSE HexString(id.digits, TRUE)

\* the bytes32 value a 0x-prefixed hex string encodes to; viem rejects other strings
IsHex(id) == id.prefixed
Bytes32(id) == id.digits

\* the metadata the forwarder passes for this workflow
WorkflowMetadata == [workflowId |-> 1, workflowName |-> 1, workflowOwner |-> Owner]

HttpResult(kind, value, payload, before, after) ==
    [kind |-> kind, value |-> value, payload |-> payload, before |-> before, after |-> after]

NoHttpResult == HttpResult("none", "", EmptyPayload, 0, 0)

\* onHttpTrigger(runtime, payload); mined tells whether the transaction writeReport
\* submits is executed at all, and its status is then that of the onReport call
OnHttpTrigger(payload, mined) ==
    LET idBytes32 == IdBytes32(payload.id)
        encodes == /\ IsHex(idBytes32)
                   /\ payload.targetPriceUsd >= 0
                   /\ payload.createdAt >= 0
        reportData == EncodeAbiParameters(Rule(Bytes32(idBytes32), payload.asset,
                                               payload.condition, payload.targetPriceUsd,
                                               payload.createdAt))
    IN IF payload.empty
       THEN /\ httpResult' = HttpResult("returned", "Empty request", payload,
                                        nextRuleId, nextRuleId)
            /\ UNCHANGED registryVars
       ELSE IF payload.id = NoId
       THEN /\ httpResult' = HttpResult("threw", "TypeError", payload, nextRuleId, nextRuleId)
            /\ UNCHANGED registryVars
       ELSE IF ~encodes
       THEN /\ httpResult' = HttpResult("threw", "encodeAbiParameters", payload,
                                        nextRuleId, nextRuleId)
            /\ UNCHANGED registryVars
       ELSE IF ~mined
       THEN /\ httpResult' = HttpResult("threw", "Transaction failed with status", payload,
                                        nextRuleId, nextRuleId)
            /\ UNCHANGED registryVars
       ELSE /\ OnReport(ForwarderAddress, WorkflowMetadata, reportData)
            /\ httpResult' =
                  IF lastOp'.err = "ok"
                  THEN HttpResult("returned", "txHash", payload, nextRuleId, nextRuleId')
                  ELSE HttpResult("threw", "Transaction failed with status", payload,
                                  nextRuleId, nextRuleId')

----------------------------------------------------------------------------
(* The registry after construction, and the idle workflow *)

InitRegistry ==
    /\ s_forwarderAddress = 0
    /\ s_expectedAuthor = 0
    /\ s_expectedWorkflowName = 0
    /\ s_expectedWorkflowId = 0
    /\ nextRuleId = 0
    /\ rules = [i \in RuleIds |-> ZeroRule]
    /\ usdcBalance = 0
    /\ lastOp = Op("constructor", Owner, NoMetadata, NoReport, "ok", 0, ZeroRule)
    /\ accepted = <<>>
    /\ appendedAt = <<>>

InitCron ==
    /\ pc = "idle"
    /\ priceData = [btc |-> Null, eth |-> Null, link |-> Null]
    /\ ruleCount = Null
    /\ cronRules = <<>>
    /\ index = 0
    /\ currentTimestamp = Null
    /\ notificationsSent = 0
    /\ cycleResult = NoResult
    /\ ruleLog = <<>>
    /\ cache = {}
    /\ bulk = <<>>
    /\ lookups = <<>>
    /\ clock = 0

InitPipeline ==
    /\ alerts = EmptyBag
    /\ serverResponse = Response(0, NoAlert, FALSE)
    /\ httpResult = NoHttpResult
    /\ chatResult = NoChat

Init == InitRegistry /\ InitCron /\ InitPipeline

\* the registry's operations, under arbitrary callers and arguments
CallOnReport ==
    /\ \E s \in Callers, m \in Metadatas, r \in Reports : OnReport(s, m, r)
    /\ UNCHANGED <<cronVars, pipelineVars>>
CallSetForwarderAddress ==
    /\ \E s \in Callers, a \in Addresses : SetForwarderAddress(s, a)
    /\ UNCHANGED <<cronVars, pipelineVars>>
CallSetExpectedAuthor ==
    /\ \E s \in Callers, a \in Addresses : SetExpectedAuthor(s, a)
    /\ UNCHANGED <<cronVars, pipelineVars>>
CallSetExpectedWorkflowName ==
    /\ \E s \in Callers, n \in WorkflowNames : SetExpectedWorkflowName(s, n)
    /\ UNCHANGED <<cronVars, pipelineVars>>
CallSetExpectedWorkflowId ==
    /\ \E s \in Callers, i \in WorkflowIds : SetExpectedWorkflowId(s, i)
    /\ UNCHANGED <<cronVars, pipelineVars>>
CallReceiveUSDC ==
    /\ ReceiveUSDC
    /\ UNCHANGED <<cronVars, pipelineVars>>
CallWithdrawUSDC ==
    /\ \E s \in Callers, t \in Addresses, a \in 0..MaxBalance : WithdrawUSDC(s, t, a)
    /\ UNCHANGED <<cronVars, pipelineVars>>
ViewGetRule ==
    /\ \E i \in RuleIds : CallGetRule(i)
    /\ UNCHANGED <<cronVars, pipelineVars>>
ViewRules ==
    /\ \E i \in RuleIds : CallRulesGetter(i)
    /\ UNCHANGED <<cronVars, pipelineVars>>
ViewGetRuleCount ==
    /\ CallGetRuleCount
    /\ UNCHANGED <<cronVars, pipelineVars>>
ViewGetAllRules ==
    /\ CallGetAllRules
    /\ UNCHANGED <<cronVars, pipelineVars>>

Next ==
    \/ CallOnReport
    \/ CallSetForwarderAddress
    \/ CallSetExpectedAuthor
    \/ CallSetExpectedWorkflowName
    \/ CallSetExpectedWorkflowId
    \/ CallReceiveUSDC
    \/ CallWithdrawUSDC
    \/ ViewGetRule
    \/ ViewRules
    \/ ViewGetRuleCount
    \/ ViewGetAllRules

Spec == Init /\ [][Next]_vars

CronNext ==
    \/ CronStart
    \/ FetchPrice
    \/ ReadRuleCount
    \/ ReadAllRules
    \/ ReadRule
    \/ StartLoop
    \/ CheckRule
    \/ CronReturn
    \/ CronFinish
    \/ WriteReport

CronSpec == Init /\ [][CronNext]_vars

FastCronNext ==
    \/ CronNext
    \/ CronFinishSoon

FastCronSpec == Init /\ [][FastCronNext]_vars

\* the cycles and the appends on one time line: reports are appended at the time
\* the clock shows and each cycle's loop reads the same clock
TimedCronNext ==
    \/ Tick
    \/ CronStart
    \/ FetchPrice
    \/ ReadRuleCount
    \/ ReadAllRules
    \/ ReadRule
    \/ TimedStartLoop
    \/ CheckRule
    \/ CronReturn
    \/ CronFinish
    \/ WriteReport

TimedCronSpec == Init /\ [][TimedCronNext]_vars

\* a request to POST /alerts, whatever its payment header and body
CallPostAlerts ==
    /\ \E payment \in Payments, body \in Bodies, now \in CreatedAts :
         PostAlerts(payment, body, now)
    /\ UNCHANGED <<registryVars, cronVars, httpResult, chatResult>>

\* the HTTP trigger fires with a payload
CallOnHttpTrigger ==
    /\ \E payload \in HttpPayloads, mined \in BOOLEAN : OnHttpTrigger(payload, mined)
    /\ UNCHANGED <<cronVars, alerts, serverResponse, chatResult>>

\* the owner sets the expected author, as in Spec
WriteSetExpectedAuthor ==
    /\ \E a \in Addresses : SetExpectedAuthor(Owner, a)
    /\ UNCHANGED <<cronVars, pipelineVars>>

WriteNext ==
    \/ CallPostAlerts
    \/ CallOnHttpTrigger
    \/ WriteSetExpectedAuthor

WriteSpec == Init /\ [][WriteNext]_vars

\* a request to POST /chat, whatever its message and whatever the model answers
CallPostChat ==
    /\ \E message \in ChatMessages :
         IF message = "text"
         THEN \E llm \in LlmResponses, payment \in AgentPayments, now \in CreatedAts :
                 PostChat(message, llm, payment, now)
         ELSE \* the request ends before the model and the wallet are used
              PostChat(message, NoLlm, [kind |-> "none", from |-> ""], 0)
    /\ UNCHANGED <<registryVars, cronVars, httpResult>>

\* the server alone: requests to its two endpoints
ChatNext ==
    \/ CallPostChat
    \/ CallPostAlerts

ChatSpec == Init /\ [][ChatNext]_vars

----------------------------------------------------------------------------
(* Properties of the registry (Spec) *)

\* the errors of the configured predicates that a call's sender and metadata miss
MismatchErrors(sender, metadata) ==
    {e \in {"InvalidSender", "InvalidWorkflowId", "InvalidAuthor", "InvalidWorkflowName"} :
        \/ e = "InvalidSender" /\ s_forwarderAddress # 0 /\ sender # s_forwarderAddress
        \/ e = "InvalidWorkflowId" /\ s_expectedWorkflowId # 0
             /\ metadata.workflowId # s_expectedWorkflowId
        \/ e = "InvalidAuthor" /\ s_expectedAuthor # 0
             /\ metadata.workflowOwner # s_expectedAuthor
        \/ e = "InvalidWorkflowName" /\ s_expectedWorkflowName # 0
             /\ metadata.workflowName # s_expectedWorkflowName}

\* C1: an onReport call that misses a configured predicate (trusted sender, workflow
\* id, owner, workflow name) reverts with the error of a predicate it misses, and
\* leaves nextRuleId and every stored rule as they were.
C1_MismatchRejected ==
    [][(lastOp'.op = "onReport"
          /\ MismatchErrors(lastOp'.sender, lastOp'.metadata) # {})
        => /\ lastOp'.err \in MismatchErrors(lastOp'.sender, lastOp'.metadata)
           /\ nextRuleId' = nextRuleId
           /\ rules' = rules]_vars

\* C1 witness: with one rule stored, a call whose metadata names another owner than
\* the expected one was rejected with InvalidAuthor
C1_Witness ==
    /\ lastOp.op = "onReport"
    /\ lastOp.err = "InvalidAuthor"
    /\ s_expectedAuthor # 0
    /\ nextRuleId = 1

\* C2: getRuleCount() is the number of onReport calls that succeeded; the k-th
\* accepted rule sits at index k-1; no slot at or above the count holds a rule and
\* none below it lacks one.
C2_CountIsAppends ==
    /\ GetRuleCount = Len(accepted)
    /\ \A i \in RuleIds :
         /\ i < GetRuleCount => rules[i] = accepted[i + 1]
         /\ i >= GetRuleCount => rules[i] = ZeroRule

\* C2 witness: two reports were accepted, the second just now
C2_Witness ==
    /\ lastOp.op = "onReport"
    /\ lastOp.err = "ok"
    /\ Len(accepted) = 2

\* C3: for every i below the count, getRule(i) returns the five fields of the i-th
\* accepted rule, and no operation changes that result or lowers the count.
C3_RulesNeverChange ==
    [][/\ nextRuleId' >= nextRuleId
       /\ \A i \in RuleIds :
            i < nextRuleId =>
              /\ GetRule(i) = [err |-> "ok", rule |-> accepted[i + 1]]
              /\ GetRule(i)' = GetRule(i)]_vars

\* C3 witness: a second rule was appended and USDC withdrawn after the first
C3_Witness ==
    /\ nextRuleId = 2
    /\ lastOp.op = "withdrawUSDC"
    /\ lastOp.err = "ok"
    /\ rules[0] # rules[1]

\* C4: a single-rule read at an index at or above the count fails with the
\* rule-not-found error, whichever read function is used.
C4_OutOfRangeReadFails ==
    (lastOp.op \in {"getRule", "rules"} /\ lastOp.ruleId >= nextRuleId)
      => lastOp.err = "Rule does not exist"

\* C16: an onReport call that passes the configured predicates and whose report is
\* not the encoding of the five-field tuple reverts at the decode; any call with
\* such a report reverts, and leaves nextRuleId and every stored rule as they were.
C16_MalformedReportRejected ==
    [][(lastOp'.op = "onReport" /\ Len(lastOp'.report) # 5)
        => /\ lastOp'.err # "ok"
           /\ MismatchErrors(lastOp'.sender, lastOp'.metadata) = {}
                => lastOp'.err = "DecodeError"
           /\ nextRuleId' = nextRuleId
           /\ rules' = rules
           /\ accepted' = accepted]_vars

\* C16 witness: with one rule stored and no predicate set, a truncated report was
\* rejected at the decode
C16_Witness ==
    /\ lastOp.op = "onReport"
    /\ Len(lastOp.report) = 3
    /\ lastOp.err = "DecodeError"
    /\ nextRuleId = 1

\* no predicate is set: the state the constructor leaves
DefaultConfiguration ==
    /\ s_forwarderAddress = 0
    /\ s_expectedAuthor = 0
    /\ s_expectedWorkflowName = 0
    /\ s_expectedWorkflowId = 0

\* C20 as stated: with no predicate set every onReport call, whatever its caller,
\* metadata and report, is accepted and appends a rule.
C20_DefaultAcceptsEveryCall ==
    [][(DefaultConfiguration /\ lastOp'.op = "onReport")
        => lastOp'.err = "ok" /\ nextRuleId' = nextRuleId + 1]_vars

\* C20 amended: with no predicate set every onReport call passes the authenticator,
\* whatever its caller and metadata; it appends the decoded rule when the report is
\* the encoding of the five-field tuple and reverts at the decode otherwise.
C20_DefaultAcceptsWellFormed ==
    [][(DefaultConfiguration /\ lastOp'.op = "onReport")
        => IF Len(lastOp'.report) = 5
           THEN /\ lastOp'.err = "ok"
                /\ nextRuleId' = nextRuleId + 1
                /\ rules'[nextRuleId] = AbiDecode(lastOp'.report).rule
           ELSE /\ lastOp'.err = "DecodeError"
                /\ nextRuleId' = nextRuleId]_vars

\* C20 witness: with no predicate set, a report from a caller other than the
\* forwarder, under metadata naming some workflow, was appended
C20_Witness ==
    /\ DefaultConfiguration
    /\ lastOp.op = "onReport"
    /\ lastOp.sender = Owner
    /\ lastOp.metadata # NoMetadata
    /\ lastOp.err = "ok"
    /\ nextRuleId = 1

----------------------------------------------------------------------------
(* Properties of the evaluation cycle (CronSpec) *)

\* the rule a log entry is about, and its age at this cycle
RuleOf(entry) == cronRules[entry.index + 1]
AgeOf(entry) == currentTimestamp - RuleOf(entry).createdAt

\* C5: a rule is skipped for age exactly when now - createdAt > TTL, and a rule
\* older than the TTL causes no dispatch, whatever its condition and the price.
C5_SkippedIffOlderThanTTL ==
    \A k \in DOMAIN ruleLog :
       /\ ruleLog[k].outcome = "expired" <=> AgeOf(ruleLog[k]) > RuleTTL
       /\ AgeOf(ruleLog[k]) > RuleTTL
            => ruleLog[k].dispatches = 0 /\ ruleLog[k].requests = 0

\* C5 witness: of two BTC gte rules under a matching price, the one aged exactly
\* TTL was notified and the one aged TTL + 1 was skipped
C5_Witness ==
    /\ Len(ruleLog) = 2
    /\ \A k \in 1..2 : RuleOf(ruleLog[k]).asset = "BTC" /\ RuleOf(ruleLog[k]).condition = "gte"
    /\ priceData.btc \div FeedScale >= RuleOf(ruleLog[1]).targetPriceUsd
    /\ AgeOf(ruleLog[1]) = RuleTTL /\ ruleLog[1].outcome = "sent"
    /\ AgeOf(ruleLog[2]) = RuleTTL + 1 /\ ruleLog[2].outcome = "expired"

\* C6: checkCondition(P, T, c) is P > T for gt, P < T for lt, P >= T for gte and
\* P <= T for lte.
C6_CheckConditionRelations ==
    \A k \in DOMAIN ruleLog :
       LET P == ruleLog[k].priceInUsd
           T == RuleOf(ruleLog[k]).targetPriceUsd
           c == RuleOf(ruleLog[k]).condition
       IN ruleLog[k].outcome \in {"not met", "sent", "failed"} =>
            /\ c = "gt" => (ruleLog[k].conditionMet <=> P > T)
            /\ c = "lt" => (ruleLog[k].conditionMet <=> P < T)
            /\ c = "gte" => (ruleLog[k].conditionMet <=> P >= T)
            /\ c = "lte" => (ruleLog[k].conditionMet <=> P <= T)

\* C6 witness: with the price equal to the target, a gte rule matched and a lt rule
\* did not
C6_Witness ==
    /\ Len(ruleLog) = 2
    /\ \A k \in 1..2 : ruleLog[k].priceInUsd = RuleOf(ruleLog[k]).targetPriceUsd
    /\ RuleOf(ruleLog[1]).condition = "gte" /\ ruleLog[1].conditionMet
    /\ RuleOf(ruleLog[2]).condition = "lt" /\ ruleLog[2].outcome = "not met"

\* whether the rule's condition holds against the price fetched for its asset
Holds(rule) ==
    LET a == IF rule.asset = "BTC" THEN priceData.btc
             ELSE IF rule.asset = "ETH" THEN priceData.eth ELSE priceData.link
        P == a \div FeedScale
        T == rule.targetPriceUsd
    IN \/ rule.condition = "gt" /\ P > T
       \/ rule.condition = "lt" /\ P < T
       \/ rule.condition = "gte" /\ P >= T
       \/ rule.condition = "lte" /\ P <= T

\* C7: in one cycle at most one dispatch is made per rule, and none for a rule that
\* is expired, names an unknown asset, or whose condition does not hold.
C7_AtMostOneDispatch ==
    /\ \A i \in 0..(Len(cronRules) - 1) :
         Cardinality({k \in DOMAIN ruleLog :
                        ruleLog[k].index = i /\ ruleLog[k].dispatches > 0}) <= 1
    /\ \A k \in DOMAIN ruleLog :
         /\ ruleLog[k].dispatches <= 1
         /\ ruleLog[k].dispatches > 0 =>
              /\ AgeOf(ruleLog[k]) <= RuleTTL
              /\ RuleOf(ruleLog[k]).asset \in {"BTC", "ETH", "LINK"}
              /\ Holds(RuleOf(ruleLog[k]))

\* C7 witness: a cycle over an unknown-asset rule and a matching rule ended with
\* one dispatch, for the second
C7_Witness ==
    /\ pc = "done"
    /\ Len(ruleLog) = 2
    /\ ruleLog[1].outcome = "unknown asset" /\ ruleLog[1].dispatches = 0
    /\ ruleLog[2].outcome = "sent" /\ ruleLog[2].dispatches = 1

\* the log entries of the dispatches that succeeded
SentEntries == {k \in DOMAIN ruleLog : ruleLog[k].outcome = "sent"}

\* C8: a failed dispatch is caught: the cycle goes on to the later rules and returns
\* normally, and only the dispatches that succeeded are counted.
C8_DispatchFailureCaught ==
    (\E k \in DOMAIN ruleLog : ruleLog[k].outcome = "failed") =>
       /\ pc \in {"loop", "done"}
       /\ cycleResult.kind # "error"
       /\ notificationsSent = Cardinality(SentEntries)
       /\ pc = "loop" => index = Len(ruleLog)
       /\ pc = "done" =>
            /\ cycleResult.kind = "result"
            /\ cycleResult.sent = Cardinality(SentEntries)
            /\ {ruleLog[k].index : k \in DOMAIN ruleLog} = 0..(Len(cronRules) - 1)

\* C8 witness: the first rule's dispatch failed, the second rule was notified, and
\* the cycle returned a count of one
C8_Witness ==
    /\ pc = "done"
    /\ Len(ruleLog) = 2
    /\ ruleLog[1].outcome = "failed"
    /\ ruleLog[2].outcome = "sent"
    /\ cycleResult.kind = "result" /\ cycleResult.sent = 1

\* the feed whose read failed in this cycle, if one did
FailedFeeds ==
    {a \in {"BTC", "ETH", "LINK"} :
        \/ a = "BTC" /\ priceData.btc = Failed
        \/ a = "ETH" /\ priceData.eth = Failed
        \/ a = "LINK" /\ priceData.link = Failed}

\* C9: a failed price read for one asset does not abort the cycle: while the store
\* holds a rule on another supported asset, the cycle does not end in an error.
C9_PriceFailureIsolated ==
    \A i \in RuleIds :
       (i < nextRuleId /\ FailedFeeds # {}
          /\ rules[i].asset \in {"BTC", "ETH", "LINK"} \ FailedFeeds)
         => cycleResult.kind # "error"

\* C10: every cycle ends by returning a result, whatever price read, rule or
\* notification failed in it.
C10_CycleReturnsResult ==
    (pc = "done" /\ cycleResult.cause \notin {"getRuleCount", "getAllRules", "getRule"})
       => cycleResult.kind \in {"result", "no rules"}

\* the outcomes the loop body may leave for a rule on a supported asset, from the
\* rule, the clock and the prices alone
ExpectedOutcomes(rule) ==
    IF currentTimestamp - rule.createdAt > RuleTTL THEN {"expired"}
    ELSE IF ~Holds(rule) THEN {"not met"}
    ELSE {"sent", "failed"}

\* C11: in a cycle over rules of which one names an unsupported asset, that rule
\* causes no dispatch, every rule gets its one log entry in order, a rule on a
\* supported asset ends as its own age, condition and price say, and the returned
\* counts are the number of rules and the number of notifications sent.
C11_UnknownAssetSkipped ==
    (\E i \in DOMAIN cronRules : cronRules[i].asset \notin {"BTC", "ETH", "LINK"}) =>
       /\ \A k \in DOMAIN ruleLog :
            /\ ruleLog[k].index = k - 1
            /\ RuleOf(ruleLog[k]).asset \notin {"BTC", "ETH", "LINK"} =>
                 /\ ruleLog[k].outcome \in {"unknown asset", "expired"}
                 /\ ruleLog[k].outcome = "unknown asset" <=> AgeOf(ruleLog[k]) <= RuleTTL
                 /\ ruleLog[k].dispatches = 0 /\ ruleLog[k].requests = 0
            /\ RuleOf(ruleLog[k]).asset \in {"BTC", "ETH", "LINK"} =>
                 ruleLog[k].outcome \in ExpectedOutcomes(RuleOf(ruleLog[k]))
       /\ (pc = "done" /\ cycleResult.kind = "result") =>
            /\ Len(ruleLog) = Len(cronRules)
            /\ cycleResult.processed = Len(cronRules)
            /\ cycleResult.sent = Cardinality(SentEntries)

\* C11 witness: a cycle over a matching BTC rule and a DOGE rule returned two rules
\* processed and one notification sent
C11_Witness ==
    /\ pc = "done"
    /\ cycleResult = [kind |-> "result", cause |-> "", processed |-> 2, sent |-> 1]
    /\ cronRules[1].asset = "BTC" /\ ruleLog[1].outcome = "sent"
    /\ cronRules[2].asset = "DOGE" /\ ruleLog[2].outcome = "unknown asset"

\* C12: a dispatch whose request went out counts as delivered exactly when the
\* response's transport status is 2xx and its body's status field is 1; any other
\* response is caught as a failure naming the transport or the body, and
\* notificationsSent counts the delivered dispatches only.
C12_DeliveredIffOkAndAccepted ==
    /\ \A k \in DOMAIN ruleLog :
         LET e == ruleLog[k]
             transportOk == e.response.statusCode \in 200..299
         IN e.requests > 0 =>
              /\ e.outcome = "sent" <=> (transportOk /\ e.response.status = 1)
              /\ ~transportOk =>
                   e.outcome = "failed" /\ e.error = "request failed with status"
              /\ (transportOk /\ e.response.status # 1) =>
                   e.outcome = "failed" /\ e.error = "returned error"
    /\ pc = "loop" => notificationsSent = Cardinality(SentEntries)
    /\ (pc = "done" /\ cycleResult.kind = "result") =>
         cycleResult.sent = Cardinality(SentEntries)

\* C12 witness: a cycle whose first dispatch came back 200 with a rejecting body
\* and whose second came back 200 with status 1 returned one notification sent
C12_Witness ==
    /\ pc = "done"
    /\ Len(ruleLog) = 2
    /\ ruleLog[1].response = [statusCode |-> 200, status |-> 0]
    /\ ruleLog[1].outcome = "failed"
    /\ ruleLog[2].response = [statusCode |-> 200, status |-> 1]
    /\ ruleLog[2].outcome = "sent"
    /\ cycleResult.sent = 1

\* the rules, by index, whose notification was delivered and accepted in the cycle
\* before the running one
NotifiedInPriorCycle ==
    {e.by : e \in {c \in cache : c.prior /\ c.response = [statusCode |-> 200, status |-> 1]}}

\* C14: a rule that was notified in a prior cycle and still matches (against a
\* positive price), and is not expired, is notified again in the running cycle: its
\* dispatch is made and its request reaches the messaging endpoint.
C14_RepeatNotSuppressed ==
    \A k \in DOMAIN ruleLog :
       (/\ ruleLog[k].index \in NotifiedInPriorCycle
        /\ AgeOf(ruleLog[k]) <= RuleTTL
        /\ Holds(RuleOf(ruleLog[k]))
        /\ AssetPriceData(RuleOf(ruleLog[k]), priceData) > 0)
         => ruleLog[k].dispatches = 1 /\ ruleLog[k].requests = 1

----------------------------------------------------------------------------
(* Properties of the write path (WriteSpec) *)

\* C15: an onHttpTrigger invocation either returns normally, and then it stored a
\* rule and returns the transaction's identifier, or it throws with a reason, and
\* then it stored nothing.
C15_WriteAllOrNothing ==
    /\ httpResult.kind = "returned" =>
         httpResult.after = httpResult.before + 1 /\ httpResult.value = "txHash"
    /\ httpResult.kind = "threw" =>
         httpResult.after = httpResult.before /\ httpResult.value # ""

IdInputs(a) == <<a.payer, a.asset, a.condition, a.targetPriceUsd, a.createdAt>>

AlertsLike(a) ==
    {b \in BagToSet(alerts) :
        /\ b.payer = a.payer /\ b.asset = a.asset
        /\ b.condition = a.condition /\ b.targetPriceUsd = a.targetPriceUsd}

\* how many times POST /alerts was asked for an alert like a
SubmissionsLike(a) == BagCardinality([b \in AlertsLike(a) |-> alerts[b]])

\* the stored rules that came from an alert like a
StoredLike(a) ==
    {i \in 0..(nextRuleId - 1) : \E b \in AlertsLike(a) : rules[i].id = b.id.digits}

\* C19: submitting the same asset, condition and target from the same payer more
\* than once does not result in more than one stored rule.
C19_NoDuplicateRules ==
    \A a \in BagToSet(alerts) :
       SubmissionsLike(a) > 1 => Cardinality(StoredLike(a)) <= 1

----------------------------------------------------------------------------
(* Further properties of the cron workflow (CronSpec) *)

\* the numbers the returned string carries, in the order it carries them:
\* `Processed ${rules.length} rules, sent ${notificationsSent} notifications`
ReportedCounts(result) == <<result.processed, result.sent>>

\* the rules of the cycle whose condition matched
MatchedEntries == {k \in DOMAIN ruleLog : ruleLog[k].conditionMet}

\* C21: the result a cycle returns reports three counts that are accurate for the
\* cycle: the rules considered, the rules whose condition matched, and the rules
\* notified.
C21_ThreeAccurateCounts ==
    cycleResult.kind = "result" =>
       ReportedCounts(cycleResult)
          = <<Len(cronRules), Cardinality(MatchedEntries), Cardinality(SentEntries)>>

\* getAllRules (workflow) has returned its array to onCronTrigger
ListingReturned ==
    \/ pc \in {"fetched", "loop"}
    \/ pc = "done" /\ cycleResult.kind \in {"result", "no rules"}

\* C23: the rule listing is the bulk result exactly when the bulk result's length
\* equals the count read; otherwise it is the rules looked up one by one at the
\* indices 0..count-1 in increasing order; either way it has the length of the
\* count read and is in insertion order.
C23_ListingStrategy ==
    ListingReturned =>
       /\ IF Len(bulk) = ruleCount
          THEN cronRules = bulk /\ lookups = <<>>
          ELSE /\ lookups = [i \in 1..ruleCount |-> i - 1]
               /\ \A i \in 1..ruleCount : cronRules[i] = GetRule(lookups[i]).rule
       /\ Len(cronRules) = ruleCount
       /\ \A i \in 1..ruleCount : cronRules[i] = accepted[i]

\* C23 witness: a rule was appended between the count read and the bulk read, and
\* the listing came from an individual lookup, not from the longer bulk result
C23_Witness ==
    /\ pc = "fetched"
    /\ ruleCount = 1 /\ Len(bulk) = 2
    /\ lookups = <<0>>
    /\ cronRules = SubSeq(bulk, 1, 1)
    /\ bulk[1] # bulk[2]

\* C24: a failing bulk fetch (the getAllRules call) does not abort the cycle: the
\* workflow falls back to getRule(i) and still obtains the rule set.
C24_BulkFailureFallsBack ==
    cycleResult.kind = "error" => cycleResult.cause # "getAllRules"

\* C25: however appends interleave with the count read, the bulk read and the
\* per-index reads of one listing, the listing is the first ruleCount rules of the
\* store in insertion order, each a rule that a report carried (never a
\* zero-valued or partly written one), and no lookup fails as out of range.
C25_ListingIsPrefix ==
    /\ ListingReturned =>
          /\ ruleCount <= nextRuleId
          /\ cronRules = SubSeq(GetAllRules, 1, ruleCount)
          /\ \A i \in 1..Len(cronRules) :
                cronRules[i] \in CronRuleSet /\ cronRules[i] # ZeroRule
    /\ cycleResult.cause # "Rule does not exist"

\* C25 witness: an append landed between the reads of a listing, which returned
\* the one rule stored before it
C25_Witness ==
    /\ pc = "loop"
    /\ ruleCount = 1 /\ nextRuleId = 2
    /\ cronRules = <<rules[0]>>
    /\ rules[1] \notin {ZeroRule, rules[0]}

\* the three price reads of the running cycle have returned an answer
PricesRead ==
    \A a \in {priceData.btc, priceData.eth, priceData.link} : a \notin {Null, Failed}

\* C29: in every cycle the BTC, ETH and LINK price reads have all completed before
\* the rule set is read and before any rule is evaluated; they are made also when
\* the store holds no rule, and then the cycle ends with the "no rules" result and
\* no dispatch.
C29_PricesBeforeRules ==
    /\ (\/ pc \in {"count", "bulk", "fallback", "fetched", "loop"}
        \/ ruleCount # Null \/ bulk # <<>> \/ lookups # <<>>
        \/ cronRules # <<>> \/ ruleLog # <<>>
        \/ cycleResult.kind \in {"result", "no rules"}) => PricesRead
    /\ cycleResult.kind = "no rules" =>
          /\ PricesRead
          /\ ruleCount = 0 /\ cronRules = <<>>
          /\ ruleLog = <<>> /\ notificationsSent = 0
          /\ \A c \in cache : c.prior

\* C29 witness: a cycle on an empty store read the three prices and returned the
\* "no rules" result
C29_Witness ==
    /\ pc = "done" /\ cycleResult.kind = "no rules"
    /\ nextRuleId = 0
    /\ priceData = [btc |-> FeedScale + FeedScale \div 2, eth |-> 2 * FeedScale,
                    link |-> 2 * FeedScale]

\* the relation named by condition between the raw answer and the target at the
\* feed's scale: the exact price answer / 10^8 against the target
ExactRelation(answer, target, condition) ==
    \/ condition = "gt" /\ answer > target * FeedScale
    \/ condition = "lt" /\ answer < target * FeedScale
    \/ condition = "gte" /\ answer >= target * FeedScale
    \/ condition = "lte" /\ answer <= target * FeedScale

\* C30: the condition is applied to the price without rounding: for a raw answer
\* a and a target t, the match decision for gt, lt, gte, lte is the relation
\* between a / 10^8 and t, that is between a and t * 10^8.
C30_NoImplicitRounding ==
    \A k \in DOMAIN ruleLog :
       LET rule == RuleOf(ruleLog[k])
       IN (/\ ruleLog[k].outcome \in {"not met", "sent", "failed"}
           /\ rule.condition \in {"gt", "lt", "gte", "lte"})
            => (ruleLog[k].conditionMet
                  <=> ExactRelation(CurrentPrice(rule, priceData), rule.targetPriceUsd,
                                    rule.condition))

----------------------------------------------------------------------------
(* Further properties of the write path (WriteSpec) *)

\* C22: POST /alerts creates no alert (no id, no payload for the trigger, no 201
\* response carrying an alert) unless the request's x402 payment was verified; a
\* request without a verified payment is answered 402 and creates nothing,
\* whatever requests came before it.
C22_NoAlertWithoutPayment ==
    [][/\ alerts' # alerts =>
            /\ serverResponse'.verified /\ serverResponse'.status = 201
            /\ alerts' = alerts (+) SetToBag({serverResponse'.alert})
       /\ (serverResponse'.status # 0 /\ ~serverResponse'.verified) =>
            /\ serverResponse'.status = 402 /\ serverResponse'.alert = NoAlert
            /\ alerts' = alerts
       /\ serverResponse'.alert # NoAlert =>
            /\ serverResponse'.verified /\ serverResponse'.status = 201
            /\ BagIn(serverResponse'.alert, alerts')]_vars

\* C22 witness: after a paid request created an alert, a retry without a verified
\* payment was answered 402 and left the alerts as they were
C22_Witness ==
    /\ serverResponse.status = 402 /\ ~serverResponse.verified
    /\ BagCardinality(alerts) = 1

----------------------------------------------------------------------------
(* Further properties of the registry (Spec) *)

\* C26: in every state the two read paths agree: getAllRules() has length
\* getRuleCount() and its i-th element is getRule(i), for every i below the count:
\* all rules in insertion order.
C26_ReadPathsAgree ==
    /\ Len(GetAllRules) = GetRuleCount
    /\ \A i \in 0..(GetRuleCount - 1) :
          /\ GetRule(i).err = "ok"
          /\ GetAllRules[i + 1] = GetRule(i).rule
    /\ GetAllRules = accepted

\* C26 witness: getAllRules() was called on a store of two different rules
C26_Witness ==
    /\ lastOp.op = "getAllRules"
    /\ lastOp.ruleId = 2
    /\ GetRule(0).rule # GetRule(1).rule

\* the first error in the order sender, workflow id, owner, workflow name among
\* those in errs, or "ok"
FirstInOrder(errs) ==
    IF "InvalidSender" \in errs THEN "InvalidSender"
    ELSE IF "InvalidWorkflowId" \in errs THEN "InvalidWorkflowId"
    ELSE IF "InvalidAuthor" \in errs THEN "InvalidAuthor"
    ELSE IF "InvalidWorkflowName" \in errs THEN "InvalidWorkflowName"
    ELSE "ok"

\* C27: onReport evaluates its predicates in the order sender, workflow id, owner,
\* workflow name: when several configured predicates mismatch, the call reverts
\* with the error of the first of them in this order, and a sender mismatch is
\* reported whatever the metadata and the report bytes are.
C27_FirstMismatchReported ==
    lastOp.op = "onReport" =>
       LET first == FirstInOrder(MismatchErrors(lastOp.sender, lastOp.metadata))
       IN IF first # "ok"
          THEN lastOp.err = first
          ELSE lastOp.err \in {"ok", "DecodeError"}

\* C27 witness: all four predicates mismatched and the report did not decode; the
\* call reverted with InvalidSender
C27_Witness ==
    /\ lastOp.op = "onReport"
    /\ Cardinality(MismatchErrors(lastOp.sender, lastOp.metadata)) = 4
    /\ ~AbiDecode(lastOp.report).ok
    /\ lastOp.err = "InvalidSender"

\* C28: an accepted report is the only thing that changes the Rule Store: the
\* setters, withdrawUSDC, the read functions and every rejected onReport call
\* leave nextRuleId and the stored rules as they were, and whenever they change
\* it is by one onReport call that passed every predicate configured at the time
\* and appended the rule its report carried.
C28_OnlyAcceptedReportsAppend ==
    [][(nextRuleId' # nextRuleId \/ rules' # rules) =>
          /\ lastOp'.op = "onReport" /\ lastOp'.err = "ok"
          /\ MismatchErrors(lastOp'.sender, lastOp'.metadata) = {}
          /\ AbiDecode(lastOp'.report).ok
          /\ nextRuleId' = nextRuleId + 1
          /\ rules' = [rules EXCEPT ![nextRuleId] = AbiDecode(lastOp'.report).rule]]_vars

\* C28 witness: with a forwarder and an owner expected, a report from them was
\* appended as the second rule
C28_Witness ==
    /\ lastOp.op = "onReport" /\ lastOp.err = "ok"
    /\ s_forwarderAddress # 0 /\ s_expectedAuthor # 0
    /\ nextRuleId = 2
    /\ rules[1] = AbiDecode(lastOp.report).rule

----------------------------------------------------------------------------
(* Properties of dispatch and eligibility (CronSpec) *)

\* a response to the request for this entry's rule was stored by the dispatch for
\* another rule, or in an earlier cycle
StoredByAnother(entry) ==
    \E e \in cache :
       /\ e.request = PushoverRequest(RuleOf(entry), priceData)
       /\ e.by # entry.index \/ e.prior

\* C31: for every rule that is not expired, is on a supported asset and whose
\* condition holds against the fetched price, the cycle makes exactly one request
\* to the messaging endpoint, whatever the price answer is, zero included.
C31_OneRequestPerMatch ==
    \A k \in DOMAIN ruleLog :
       (/\ AgeOf(ruleLog[k]) <= RuleTTL
        /\ RuleOf(ruleLog[k]).asset \in {"BTC", "ETH", "LINK"}
        /\ Holds(RuleOf(ruleLog[k]))
        /\ ~StoredByAnother(ruleLog[k]))
         => ruleLog[k].requests = 1

\* the log entries of the messages that reached the endpoint and were accepted
DeliveredEntries ==
    {k \in DOMAIN ruleLog :
        /\ ruleLog[k].requests = 1
        /\ Ok(ruleLog[k].response) /\ ruleLog[k].response.status = 1}

\* C32: in every cycle the number of notifications reported as sent is the number
\* of messages delivered to the messaging endpoint in the cycle, also when
\* matching rules share asset, condition and target and so yield identical
\* requests within the response cache's window.
C32_SentIsDelivered ==
    (pc = "done" /\ cycleResult.kind = "result") =>
       cycleResult.sent = Cardinality(DeliveredEntries)

\* C33: whatever rules the store holds, every dispatch of a cycle is for a rule
\* whose asset is one of BTC, ETH, LINK, whose condition is one of gt, lt, gte,
\* lte, and whose age at the cycle is at most the TTL.
C33_DispatchOnlySupported ==
    \A k \in DOMAIN ruleLog :
       ruleLog[k].dispatches > 0 =>
          /\ RuleOf(ruleLog[k]).asset \in {"BTC", "ETH", "LINK"}
          /\ RuleOf(ruleLog[k]).condition \in {"gt", "lt", "gte", "lte"}
          /\ currentTimestamp - RuleOf(ruleLog[k]).createdAt <= RuleTTL

\* C33 witness: a cycle over a rule with an unknown condition and a matching gte
\* rule, both within the TTL, dispatched for the second only
C33_Witness ==
    /\ pc = "done" /\ cycleResult.kind = "result"
    /\ Len(ruleLog) = 2
    /\ cronRules[1].condition = "eq" /\ cronRules[1].asset = "BTC"
    /\ cronRules[2].condition = "gte" /\ cronRules[2].asset = "BTC"
    /\ \A k \in 1..2 : AgeOf(ruleLog[k]) <= RuleTTL
    /\ ruleLog[1].dispatches = 0 /\ ruleLog[2].dispatches = 1
    /\ priceData.btc = 2 * FeedScale

----------------------------------------------------------------------------
(* Properties of rule expiry (TimedCronSpec) *)

\* C34: the TTL bounds how long a stored rule can notify: from TTL seconds after
\* the moment a rule was appended on, no cycle dispatches for it, whatever
\* createdAt its payload carried.
C34_ExpiresAfterAppend ==
    \A k \in DOMAIN ruleLog :
       currentTimestamp - appendedAt[ruleLog[k].index + 1] > RuleTTL
          => ruleLog[k].dispatches = 0

----------------------------------------------------------------------------
(* Zero-valued predicates (Spec) *)

\* the errors of the predicates whose field holds the zero value
ZeroValuedPredicates ==
    {e \in {"InvalidSender", "InvalidWorkflowId", "InvalidAuthor", "InvalidWorkflowName"} :
        \/ e = "InvalidSender" /\ s_forwarderAddress = 0
        \/ e = "InvalidWorkflowId" /\ s_expectedWorkflowId = 0
        \/ e = "InvalidAuthor" /\ s_expectedAuthor = 0
        \/ e = "InvalidWorkflowName" /\ s_expectedWorkflowName = 0}

\* C35: a predicate configured with the zero value (zero address as forwarder or
\* owner, zero workflow id, empty workflow name) is an unset predicate: the empty
\* name is stored as zero, and with a field at zero onReport rejects no call on
\* that field, whatever value the call carries for it, zero included.
C35_ZeroIsUnset ==
    /\ WorkflowNameBytes("") = 0
    /\ \A sender \in Addresses, metadata \in Metadatas :
          OnReportCheck(sender, metadata) \notin ZeroValuedPredicates
    /\ lastOp.op = "onReport" => lastOp.err \notin ZeroValuedPredicates

\* C35 witness: the owner had set the workflow name to the empty string while the
\* three other predicates were set; a later report carrying a workflow name, from
\* the expected sender, workflow and owner, was accepted
C35_Witness ==
    /\ lastOp.op = "onReport" /\ lastOp.err = "ok"
    /\ s_expectedWorkflowName = 0
    /\ s_forwarderAddress # 0 /\ s_expectedAuthor # 0 /\ s_expectedWorkflowId # 0
    /\ lastOp.metadata.workflowName # 0

\* the three checks of the extracted parameters
PassesChecks(args) ==
    /\ args.asset \in {"BTC", "ETH", "LINK"}
    /\ args.condition \in {"gt", "lt", "gte", "lte"}
    /\ args.targetPriceUsd # NoNumber /\ args.targetPriceUsd > 0

\* C36: a POST /chat request calls createPaidPriceAlert at most once, and only
\* when the model called create_price_alert with parameters that pass the three
\* checks (asset in {BTC, ETH, LINK}, condition in {gt, lt, gte, lte},
\* targetPriceUsd a number > 0); a request that fails a check, or that is answered
\* with text, makes no call and so no payment.
C36_PaidOnlyAfterChecks ==
    /\ chatResult.calls \in {0, 1}
    /\ chatResult.calls = 1 =>
         /\ chatResult.message = "text"
         /\ chatResult.llm.kind = "message"
         /\ chatResult.llm.tool = "create_price_alert"
         /\ chatResult.llm.parsable
         /\ PassesChecks(chatResult.llm.args)
    /\ chatResult.llm.tool # "create_price_alert" => chatResult.calls = 0
    /\ (chatResult.status # 0 /\ ~PassesChecks(chatResult.llm.args)) =>
         chatResult.calls = 0

\* a request whose function call passed the checks, paid and created its alert
C36_Witness ==
    /\ chatResult.calls = 1 /\ chatResult.status = 200
    /\ PassesChecks(chatResult.llm.args)
    /\ serverResponse.status = 201 /\ serverResponse.verified
    /\ serverResponse.alert.asset = chatResult.llm.args.asset
    /\ BagIn(serverResponse.alert, alerts)

====
